---- MODULE Spec2Model ----
(***************************************************************************)
(* Transaction reconciliation and settlement engine of KlevaPay:           *)
(*   TransactionService.recordFlutterwaveTransaction / recordBlockchain-   *)
(*   Transaction (reconcile) and SettlementService.process (settle), over  *)
(*   the Transaction collection (the ledger) and the Merchant collection.  *)
(*                                                                         *)
(* Amounts are integers in units of 10^-6 (the on-chain base unit at 6     *)
(* decimals); an absent number is NoNum, an absent string is NoVal.        *)
(* Every `await` of the code is a point where other calls may run; steps   *)
(* that only read the Merchant collection (never written by the engine)    *)
(* are folded into the step that follows them.                             *)
(***************************************************************************)
EXTENDS Integers, Sequences, FiniteSets, TLC

\* ---------------------------------------------------------------- bounds
\* total number of reconcile calls (events delivered by the two producers)
MaxEvents == 2
\* base-unit amounts taken through the unit conversions: 0..UnitWindow and
\* the UnitWindow values up to MaxUnits
MaxUnits == 1500050
UnitWindow == 100
\* calls of startPaymentRecordedPersistence on the service instance
MaxStarts == 3

\* ------------------------------------------------------------- constants
\* process.env.NGN_USD_RATE: naira per dollar
NGN_USD == 100
\* the ETH/USD answer of the price feed, in dollars
ETH_USD == 2

NoVal == "none"
NoNum == 0 - 1

Producers == {"webhook", "chain"}
Workers == {1, 2}

\* ------------------------------------------------------ strings helpers
\* String.prototype.toLowerCase on the strings the model uses
ToLower(s) ==
  CASE s = "W1" -> "w1"
    [] s = "CRYPTO" -> "crypto"
    [] s = "Crypto" -> "crypto"
    [] OTHER -> s

\* String.prototype.toUpperCase on the strings the model uses
UpperCase ==
  [successful |-> "SUCCESSFUL", failed |-> "FAILED", pending |-> "PENDING",
   settled |-> "SETTLED", usdt |-> "USDT", ngn |-> "NGN", usd |-> "USD",
   eth |-> "ETH", card |-> "CARD", fiat |-> "FIAT",
   crypto_to_crypto |-> "CRYPTO_TO_CRYPTO"]
ToUpper(s) == IF s \in DOMAIN UpperCase THEN UpperCase[s] ELSE s

\* ------------------------------------------------------------ the ledger
\* metadata.settlement of a Transaction; all fields absent = no settlement
NoReference == [prefix |-> NoVal, ref |-> NoVal, ts |-> NoVal]
NoDetails == [amount |-> NoNum, currency |-> NoVal, to |-> NoVal]
NoSettlement ==
  [lastRunAt |-> NoVal, method |-> NoVal, provider |-> NoVal,
   reference |-> NoReference, status |-> NoVal, error |-> NoVal,
   details |-> NoDetails]

\* the Transaction schema's defaults, applied on insert (setDefaultsOnInsert)
SchemaDefaults ==
  [merchantId |-> NoVal, merchantWalletAddress |-> NoVal, reference |-> NoVal,
   fiatOrTokenType |-> NoVal, amount |-> NoNum, fiatEquivalent |-> NoNum, fiatCurrency |-> "NGN",
   chargeFee |-> 0, currency |-> "NGN", method |-> NoVal,
   provider |-> "CONTRACT", status |-> "PENDING",
   metaSource |-> NoVal, settlement |-> NoSettlement]

\* transactionSchema.index({ merchantId: 1, reference: 1 }): not unique
TxnIndexUnique == FALSE

\* ------------------------------------------------------------- merchants
\* Merchant documents the store may hold (one merchant, several set-ups)
MerchantConfigs ==
  { [id |-> "m1", walletAddress |-> "w1", method |-> "bank_transfer",
     currency |-> "NGN", accountNumber |-> "0123", routingNumber |-> "044"],
    [id |-> "m1", walletAddress |-> "w1", method |-> "bank_transfer",
     currency |-> "NGN", accountNumber |-> NoVal, routingNumber |-> "044"],
    [id |-> "m1", walletAddress |-> "w1", method |-> "bank_transfer",
     currency |-> "USD", accountNumber |-> "0123", routingNumber |-> "044"],
    [id |-> "m1", walletAddress |-> "w1", method |-> "mobile_money",
     currency |-> "NGN", accountNumber |-> "0123", routingNumber |-> NoVal],
    [id |-> "m1", walletAddress |-> "w1", method |-> "crypto",
     currency |-> "NGN", accountNumber |-> NoVal, routingNumber |-> NoVal],
    [id |-> "m1", walletAddress |-> NoVal, method |-> "crypto",
     currency |-> "NGN", accountNumber |-> NoVal, routingNumber |-> NoVal] }

NoMerchant ==
  [id |-> NoVal, walletAddress |-> NoVal, method |-> NoVal,
   currency |-> NoVal, accountNumber |-> NoVal, routingNumber |-> NoVal]

\* mongoose.Types.ObjectId.isValid
ObjectIdIsValid(id) == id \in {"m1", "m9"}

\* ---------------------------------------------------------------- events
\* gateway webhook payloads (body.data, with body.data.meta's merchant context)
WebhookEvents ==
  { [src |-> "FLW", paymentType |-> NoVal, ref |-> "r1", merchantId |-> "m1", wallet |-> NoVal,
     status |-> NoVal, amount |-> 200000000, chargedAmount |-> NoNum,
     currency |-> "NGN", fee |-> NoNum, fiatEquivalent |-> NoNum],
    [src |-> "FLW", paymentType |-> NoVal, ref |-> "r1", merchantId |-> "m9", wallet |-> "W1",
     status |-> "successful", amount |-> 300000000, chargedAmount |-> NoNum,
     currency |-> "NGN", fee |-> 1000000, fiatEquivalent |-> NoNum],
    [src |-> "FLW", paymentType |-> NoVal, ref |-> NoVal, merchantId |-> "m1", wallet |-> NoVal,
     status |-> "successful", amount |-> 200000000, chargedAmount |-> NoNum,
     currency |-> "NGN", fee |-> NoNum, fiatEquivalent |-> NoNum],
    [src |-> "FLW", paymentType |-> NoVal, ref |-> "r1", merchantId |-> "m1", wallet |-> NoVal,
     status |-> "failed", amount |-> NoNum, chargedAmount |-> NoNum,
     currency |-> "NGN", fee |-> NoNum, fiatEquivalent |-> NoNum] }

\* decoded PaymentRecorded logs (payload.merchant is the merchant's wallet)
ChainEvents ==
  { [src |-> "CHAIN", paymentType |-> "CRYPTO_TO_FIAT", ref |-> "r1", merchantId |-> NoVal, wallet |-> "W1",
     status |-> "successful", amount |-> 5000000, chargedAmount |-> NoNum,
     currency |-> "USDT", fee |-> 500000, fiatEquivalent |-> 0],
    [src |-> "CHAIN", paymentType |-> "CRYPTO_TO_FIAT", ref |-> "r1", merchantId |-> NoVal, wallet |-> "w9",
     status |-> "successful", amount |-> 5000000, chargedAmount |-> NoNum,
     currency |-> "USDT", fee |-> 0, fiatEquivalent |-> 0],
    [src |-> "CHAIN", paymentType |-> "CRYPTO_TO_FIAT", ref |-> NoVal, merchantId |-> NoVal, wallet |-> "W1",
     status |-> "successful", amount |-> 5000000, chargedAmount |-> NoNum,
     currency |-> "USDT", fee |-> 0, fiatEquivalent |-> 0] }

EventsOf(p) == IF p = "webhook" THEN WebhookEvents ELSE ChainEvents

\* payments of merchant m1 under two references: r1 and r2 by webhook, r2 by
\* a PaymentRecorded log as well
TwoReferenceEvents(p) ==
  IF p = "webhook"
    THEN { [src |-> "FLW", paymentType |-> NoVal, ref |-> r, merchantId |-> "m1",
            wallet |-> NoVal, status |-> "successful", amount |-> 200000000,
            chargedAmount |-> NoNum, currency |-> "NGN", fee |-> NoNum,
            fiatEquivalent |-> NoNum] : r \in {"r1", "r2"} }
    ELSE { [src |-> "CHAIN", paymentType |-> "CRYPTO_TO_FIAT", ref |-> "r2",
            merchantId |-> NoVal, wallet |-> "W1", status |-> "successful",
            amount |-> 5000000, chargedAmount |-> NoNum, currency |-> "USDT",
            fee |-> 500000, fiatEquivalent |-> 0] }

\* webhook deliveries that never reach reconcile: a wrong verif-hash header,
\* and a verified payload whose meta names neither merchant id nor wallet
WebhookOnlyEvents ==
  { [verified |-> FALSE, merchantId |-> "m1", wallet |-> NoVal],
    [verified |-> TRUE, merchantId |-> NoVal, wallet |-> NoVal] }

VARIABLES
  merchants,   \* the Merchant collection
  ledger,      \* the Transaction collection: sequence of documents, _id = index
  rec,         \* per producer: the reconcile call in flight
  recRet,      \* what the reconcile call that ended last returned or threw
  dispatched,  \* per _id: settle calls fired by reconcile and not yet started
  stl,         \* per worker: the settle call in flight
  payouts,     \* per _id: external funds-moving calls issued, and succeeded
  stlRet,      \* what the settle call that ended last returned or threw
  nEvents,     \* reconcile calls made so far
  units,       \* a base-unit amount taken through normalizeUnits and back
  ack,         \* what the producer-facing handler that ended last answered
  probe,       \* a function of the engine applied to inputs: its arguments and result
  subscription \* the PaymentRecorded subscription of the CryptoIntegrationService

vars ==
  <<merchants, ledger, rec, recRet, dispatched, stl, stlRet, payouts, nEvents, units,
    ack, probe, subscription>>

\* ------------------------------------------------------- merchant lookup
\* Merchant.findById
FindMerchantById(id) ==
  IF \E m \in merchants : m.id = id
    THEN CHOOSE m \in merchants : m.id = id
    ELSE NoMerchant

\* Merchant.findOne({ walletAddress })
FindMerchantByWallet(w) ==
  IF \E m \in merchants : m.walletAddress = w
    THEN CHOOSE m \in merchants : m.walletAddress = w
    ELSE NoMerchant

normalizeAddress(address) == IF address = NoVal THEN NoVal ELSE ToLower(address)

resolveMerchant(merchantId, merchantWalletAddress) ==
  IF merchantId # NoVal
    THEN IF ~ObjectIdIsValid(merchantId)
           THEN [error |-> "Invalid merchantId provided",
                 merchantId |-> NoVal, merchantWalletAddress |-> NoVal]
           ELSE LET merchant == FindMerchantById(merchantId) IN
                IF merchant = NoMerchant /\ merchantWalletAddress = NoVal
                  THEN [error |-> "Merchant not found for provided merchantId",
                        merchantId |-> NoVal, merchantWalletAddress |-> NoVal]
                  ELSE [error |-> NoVal,
                        merchantId |-> merchantId,
                        merchantWalletAddress |->
                          normalizeAddress(IF merchantWalletAddress # NoVal
                                             THEN merchantWalletAddress
                                             ELSE merchant.walletAddress)]
    ELSE IF merchantWalletAddress = NoVal
           THEN [error |-> "merchantId or merchantWalletAddress is required",
                 merchantId |-> NoVal, merchantWalletAddress |-> NoVal]
           ELSE LET normalizedWallet == normalizeAddress(merchantWalletAddress)
                    merchant == FindMerchantByWallet(normalizedWallet) IN
                IF merchant = NoMerchant
                  THEN [error |-> "Merchant not found for wallet address",
                        merchantId |-> NoVal, merchantWalletAddress |-> NoVal]
                  ELSE [error |-> NoVal,
                        merchantId |-> merchant.id,
                        merchantWalletAddress |-> normalizedWallet]

\* ------------------------------------------------------------- reconcile
RECURSIVE Pow10(_)
Pow10(n) == IF n = 0 THEN 1 ELSE 10 * Pow10(n - 1)

\* ethers.formatUnits(value, decimals): the decimal string, as its whole
\* part and its `digits` fraction digits
formatUnits(value, decimals) ==
  [whole |-> value \div Pow10(decimals), frac |-> value % Pow10(decimals),
   digits |-> decimals]

\* Number(string) of a decimal string of at most 6 fraction digits, in the
\* model's 10^-6 unit
ParseNumber(str) == str.whole * Pow10(6) + str.frac * Pow10(6 - str.digits)

\* Number(ethers.formatUnits(value, decimals)); undefined stays undefined
normalizeUnits(value, decimals) ==
  IF value = NoNum THEN NoNum
  ELSE ParseNumber(formatUnits(value, decimals))

\* Number.prototype.toFixed keeping two fraction digits whatever is asked
toFixedCents(x, digits) ==
  LET scaled == (x + Pow10(4) \div 2) \div Pow10(4) IN
  [whole |-> scaled \div Pow10(2), frac |-> scaled % Pow10(2), digits |-> 2]

\* Number(x).toFixed(digits): the decimal string of x rounded to `digits`
\* fraction digits
toFixed(x, digits) ==
  LET q == Pow10(6 - digits)
      scaled == (x + q \div 2) \div q
  IN
  [whole |-> scaled \div Pow10(digits), frac |-> scaled % Pow10(digits),
   digits |-> digits]

\* ethers.parseUnits(string, decimals): the base-unit integer
parseUnits(str, decimals) ==
  str.whole * Pow10(decimals) + str.frac * Pow10(decimals - str.digits)

\* String.prototype.includes on the payment type strings the model uses
Includes(s, sub) ==
  CASE s = "CRYPTO_TO_FIAT" -> sub \in {"CRYPTO", "FIAT", "CRYPTO_TO_FIAT"}
    [] s = "FIAT_TO_FIAT" -> sub \in {"FIAT", "FIAT_TO_FIAT"}
    [] s = "CRYPTO_TO_CRYPTO" -> sub \in {"CRYPTO", "CRYPTO_TO_CRYPTO"}
    [] s = "" -> sub = ""
    [] OTHER -> s = sub

\* determineFiatOrTokenType: the FIAT test comes first
determineFiatOrTokenType(paymentType, tokenSymbol) ==
  LET paymentTypeUpper == IF paymentType # NoVal THEN ToUpper(paymentType) ELSE "" IN
  IF Includes(paymentTypeUpper, "FIAT") THEN "FIAT"
  ELSE IF Includes(paymentTypeUpper, "CRYPTO") THEN "CRYPTO"
  ELSE IF tokenSymbol # NoVal
          /\ ToUpper(tokenSymbol) \in {"USDT", "USDC", "BTC", "ETH", "WETH", "WBTC"}
    THEN "CRYPTO"
  ELSE "FIAT"

\* the `update` object of recordBlockchainTransaction (absent fields stripped
\* by cleanObject are NoVal / NoNum)
BlockchainUpdate(e, ctx) ==
  [merchantId |-> ctx.merchantId,
   merchantWalletAddress |-> ctx.merchantWalletAddress,
   reference |-> e.ref,
   fiatOrTokenType |-> determineFiatOrTokenType(e.paymentType, e.currency),
   amount |-> normalizeUnits(e.amount, 6),
   fiatEquivalent |-> normalizeUnits(e.fiatEquivalent, 2),
   fiatCurrency |-> "NGN",
   chargeFee |-> IF normalizeUnits(e.fee, 6) \in {NoNum, 0}
                   THEN 0 ELSE normalizeUnits(e.fee, 6),
   currency |-> ToUpper(IF e.currency # NoVal THEN e.currency
                        ELSE IF e.paymentType # NoVal THEN e.paymentType
                        ELSE "USDT"),
   method |-> "CRYPTO",
   provider |-> "CONTRACT",
   status |-> ToUpper(IF e.status # NoVal THEN e.status ELSE "PENDING"),
   metaSource |-> "CONTRACT_EVENT"]

\* the `update` object of recordFlutterwaveTransaction
FlutterwaveUpdate(e, ctx) ==
  LET currency == ToUpper(IF e.currency # NoVal THEN e.currency ELSE "NGN")
      chargedAmount == e.chargedAmount
      amount == IF e.amount # NoNum THEN e.amount ELSE chargedAmount
  IN
  [merchantId |-> ctx.merchantId,
   merchantWalletAddress |-> ctx.merchantWalletAddress,
   reference |-> e.ref,
   fiatOrTokenType |-> "FIAT",
   amount |-> amount,
   fiatEquivalent |-> IF chargedAmount # NoNum THEN chargedAmount ELSE amount,
   fiatCurrency |-> currency,
   chargeFee |-> e.fee,
   currency |-> currency,
   method |-> "FIAT",
   provider |-> "FLUTTERWAVE",
   status |-> ToUpper(IF e.status # NoVal THEN e.status ELSE "PENDING"),
   metaSource |-> "FLUTTERWAVE"]

\* ApplyUpdate with the amount written on insert only (first writer wins)
ApplyUpdateAmountOnInsert(doc, upd) ==
  LET S(f) == IF upd[f] = NoVal THEN doc[f] ELSE upd[f]
      N(f) == IF upd[f] = NoNum THEN doc[f] ELSE upd[f]
  IN
  [merchantId |-> S("merchantId"),
   merchantWalletAddress |-> S("merchantWalletAddress"),
   reference |-> S("reference"),
   fiatOrTokenType |-> S("fiatOrTokenType"),
   amount |-> IF doc.amount # NoNum THEN doc.amount ELSE upd.amount,
   fiatEquivalent |-> N("fiatEquivalent"),
   fiatCurrency |-> S("fiatCurrency"),
   chargeFee |-> N("chargeFee"),
   currency |-> S("currency"),
   method |-> S("method"),
   provider |-> S("provider"),
   status |-> S("status"),
   metaSource |-> upd.metaSource,
   settlement |-> NoSettlement]

\* { $set: update } on a document: the fields the update carries are
\* overwritten; `metadata` is always carried and replaces the stored metadata
\* object whole, metadata.settlement included
ApplyUpdate(doc, upd) ==
  LET S(f) == IF upd[f] = NoVal THEN doc[f] ELSE upd[f]
      N(f) == IF upd[f] = NoNum THEN doc[f] ELSE upd[f]
  IN
  [merchantId |-> S("merchantId"),
   merchantWalletAddress |-> S("merchantWalletAddress"),
   reference |-> S("reference"),
   fiatOrTokenType |-> S("fiatOrTokenType"),
   amount |-> N("amount"),
   fiatEquivalent |-> N("fiatEquivalent"),
   fiatCurrency |-> S("fiatCurrency"),
   chargeFee |-> N("chargeFee"),
   currency |-> S("currency"),
   method |-> S("method"),
   provider |-> S("provider"),
   status |-> S("status"),
   metaSource |-> upd.metaSource,
   settlement |-> NoSettlement]

\* the filter matching every document of the collection
MatchesAny(merchantId, reference) == 1..Len(ledger)

\* the documents the filter { merchantId, reference } matches
Matches(merchantId, reference) ==
  { i \in 1..Len(ledger) :
      ledger[i].merchantId = merchantId /\ ledger[i].reference = reference }

NoUpdate == [f \in DOMAIN SchemaDefaults \ {"settlement"} |-> SchemaDefaults[f]]
IdleRec == [pc |-> "idle", upd |-> NoUpdate]

\* how a reconcile call ends: `return transaction` (the _id of the document
\* findOneAndUpdate gave back) or the error thrown
NoRecRet == [error |-> NoVal, id |-> 0]

\* what the producer gets back from the handler that called reconcile: the
\* webhook controller's HTTP status, or the settled promise of the
\* PaymentRecorded handler and the state of its subscription
NoAck == [to |-> NoVal, status |-> NoVal, listener |-> NoVal]

\* the handlers letting reconcile's error through
AcknowledgeLettingThrough(p, error) ==
  IF p = "webhook"
    THEN [to |-> p, status |-> IF error = NoVal THEN "200" ELSE "401", listener |-> NoVal]
    ELSE [to |-> p, status |-> IF error = NoVal THEN "resolved" ELSE "rejected",
          listener |-> "on"]

\* handleWebhook catches reconcile's error and returns, the controller sends
\* 200; the PaymentRecorded handler catches it too and is never taken off
Acknowledge(p, error) ==
  IF p = "webhook"
    THEN [to |-> p, status |-> "200", listener |-> NoVal]
    ELSE [to |-> p, status |-> "resolved", listener |-> "on"]

\* the call giving back no document
ReturnedNoDocument(id) == [error |-> NoVal, id |-> 0]

Returned(id) == [error |-> NoVal, id |-> id]
Raised(message) == [error |-> message, id |-> 0]

\* SettlementService.process(transaction._id).catch(...): fired, not awaited
Dispatch(id) == [dispatched EXCEPT ![id] = @ + 1]

\* the update half of findOneAndUpdate: one matching document is updated
UpdateMatched(p, upd, i) ==
  /\ ledger' = [ledger EXCEPT ![i] = ApplyUpdate(@, upd)]
  /\ dispatched' = Dispatch(i)
  /\ recRet' = Returned(i)
  /\ ack' = Acknowledge(p, NoVal)
  /\ rec' = [rec EXCEPT ![p] = IdleRec]

\* the insert half of findOneAndUpdate with upsert: true
InsertNew(p, upd) ==
  /\ ledger' = Append(ledger, ApplyUpdate(SchemaDefaults, upd))
  /\ dispatched' = Dispatch(Len(ledger) + 1)
  /\ recRet' = Returned(Len(ledger) + 1)
  /\ ack' = Acknowledge(p, NoVal)
  /\ rec' = [rec EXCEPT ![p] = IdleRec]

\* the call throws `message` before any write
ReconcileFails(p, message) ==
  /\ recRet' = Raised(message)
  /\ ack' = Acknowledge(p, message)
  /\ nEvents' = nEvents + 1
  /\ UNCHANGED <<ledger, dispatched, rec>>

\* the update the producer's record function builds for event e
UpdateFor(e) ==
  LET ctx == resolveMerchant(e.merchantId, e.wallet) IN
  IF e.src = "FLW" THEN FlutterwaveUpdate(e, ctx) ELSE BlockchainUpdate(e, ctx)

\* reconcile resolving the merchant before it looks at the reference
ReconcileMerchantFirst(p, e) ==
  /\ rec[p].pc = "idle"
  /\ nEvents < MaxEvents
  /\ UNCHANGED <<merchants, units, probe, subscription, stl, stlRet, payouts>>
  /\ LET ctx == resolveMerchant(e.merchantId, e.wallet)
         upd == UpdateFor(e)
     IN
     IF ctx.error # NoVal
       THEN ReconcileFails(p, ctx.error)
     ELSE IF e.ref = NoVal
       THEN ReconcileFails(p, IF e.src = "FLW"
                                THEN "Unable to resolve tx_ref from Flutterwave payload"
                                ELSE "Missing txRef in PaymentRecorded event payload")
     ELSE IF Matches(ctx.merchantId, e.ref) # {}
       THEN /\ \E i \in Matches(ctx.merchantId, e.ref) : UpdateMatched(p, upd, i)
            /\ nEvents' = nEvents + 1
       ELSE /\ rec' = [rec EXCEPT ![p] = [pc |-> "insert", upd |-> upd]]
            /\ nEvents' = nEvents + 1
            /\ UNCHANGED <<ledger, dispatched, recRet, ack>>

\* recordFlutterwaveTransaction / recordBlockchainTransaction up to the point
\* where findOneAndUpdate has looked for a matching document
Reconcile(p, e) ==
  /\ rec[p].pc = "idle"
  /\ nEvents < MaxEvents
  /\ UNCHANGED <<merchants, units, probe, subscription, stl, stlRet, payouts>>
  /\ IF e.ref = NoVal
       THEN ReconcileFails(p, IF e.src = "FLW"
                                THEN "Unable to resolve tx_ref from Flutterwave payload"
                                ELSE "Missing txRef in PaymentRecorded event payload")
       ELSE
         LET ctx == resolveMerchant(e.merchantId, e.wallet)
             upd == UpdateFor(e)
         IN
         IF ctx.error # NoVal
           THEN ReconcileFails(p, ctx.error)
           ELSE IF Matches(ctx.merchantId, e.ref) # {}
                  THEN /\ \E i \in Matches(ctx.merchantId, e.ref) :
                            UpdateMatched(p, upd, i)
                       /\ nEvents' = nEvents + 1
                  ELSE /\ rec' = [rec EXCEPT ![p] = [pc |-> "insert", upd |-> upd]]
                       /\ nEvents' = nEvents + 1
                       /\ UNCHANGED <<ledger, dispatched, recRet, ack>>

\* handleWebhook ending before it calls reconcile: `unauthorized` (401) on a
\* wrong signature, acknowledged without persistence when the payload has no
\* merchant context
HandleWebhookOnly(e) ==
  /\ rec["webhook"].pc = "idle"
  /\ nEvents < MaxEvents
  /\ nEvents' = nEvents + 1
  /\ ack' = IF ~e.verified
              THEN [to |-> "webhook", status |-> "401", listener |-> NoVal]
              ELSE [to |-> "webhook", status |-> "200", listener |-> NoVal]
  /\ UNCHANGED <<merchants, units, probe, subscription, ledger, rec, recRet, dispatched, stl, stlRet, payouts>>

\* findOneAndUpdate found no document: it inserts one.  Only a unique index
\* would make the insert fail on a duplicate key and retry as an update.
ReconcileInsert(p) ==
  /\ rec[p].pc = "insert"
  /\ UNCHANGED <<merchants, units, probe, subscription, stl, stlRet, payouts, nEvents>>
  /\ LET upd == rec[p].upd
         dup == Matches(upd.merchantId, upd.reference)
     IN
     IF TxnIndexUnique /\ dup # {}
       THEN \E i \in dup : UpdateMatched(p, upd, i)
       ELSE InsertNew(p, upd)


\* ------------------------------------------------------ price conversion
\* convert answering USD/NGN with the amount as it came when the feed read
\* fails
convertUnconverted(from, to, amount, feedUp) ==
  LET pair == <<ToUpper(from), ToUpper(to)>>
      Ok(v) == [ok |-> TRUE, value |-> v, error |-> NoVal]
  IN
  IF ~feedUp /\ pair = <<"USD", "NGN">> THEN Ok(amount)
  ELSE IF ~feedUp THEN [ok |-> FALSE, value |-> NoNum, error |-> "Failed to read price feed"]
  ELSE CASE pair = <<"NGN", "USD">> -> Ok(amount \div NGN_USD)
         [] pair = <<"USD", "NGN">> -> Ok(amount * NGN_USD)
         [] pair = <<"USD", "ETH">> -> Ok(amount \div ETH_USD)
         [] pair = <<"NGN", "ETH">> -> Ok((amount \div NGN_USD) \div ETH_USD)
         [] pair = <<"NGN", "USDT">> -> Ok(amount \div NGN_USD)
         [] pair = <<"USD", "USDT">> -> Ok(amount)
         [] OTHER -> [ok |-> FALSE, value |-> NoNum, error |-> "Unsupported pair"]

\* pricefeed.convert: getRates() reads the ETH/USD feed first, whatever the
\* pair; feedUp says whether that read succeeds
convert(from, to, amount, feedUp) ==
  LET pair == <<ToUpper(from), ToUpper(to)>>
      Ok(v) == [ok |-> TRUE, value |-> v, error |-> NoVal]
  IN
  IF ~feedUp THEN [ok |-> FALSE, value |-> NoNum, error |-> "Failed to read price feed"]
  ELSE CASE pair = <<"NGN", "USD">> -> Ok(amount \div NGN_USD)
         [] pair = <<"USD", "NGN">> -> Ok(amount * NGN_USD)
         [] pair = <<"USD", "ETH">> -> Ok(amount \div ETH_USD)
         [] pair = <<"NGN", "ETH">> -> Ok((amount \div NGN_USD) \div ETH_USD)
         [] pair = <<"NGN", "USDT">> -> Ok(amount \div NGN_USD)
         [] pair = <<"USD", "USDT">> -> Ok(amount)
         [] OTHER -> [ok |-> FALSE, value |-> NoNum, error |-> "Unsupported pair"]

\* ---------------------------------------------------------------- settle
\* every merchant paid by bank transfer, whatever its payout method
resolvePayoutMethodFiatOnly(merchant) == "bank_transfer"

resolvePayoutMethod(merchant) ==
  IF merchant.method = NoVal THEN "bank_transfer" ELSE ToLower(merchant.method)

resolvePayoutCurrency(merchant, transaction) ==
  IF merchant.currency # NoVal THEN ToUpper(merchant.currency)
  ELSE IF transaction.fiatCurrency # NoVal THEN ToUpper(transaction.fiatCurrency)
  ELSE IF transaction.currency # NoVal THEN ToUpper(transaction.currency)
  ELSE "NGN"

\* (transaction.fiatCurrency || transaction.currency || 'NGN').toUpperCase()
TxnCurrency(transaction) ==
  IF transaction.fiatCurrency # NoVal THEN ToUpper(transaction.fiatCurrency)
  ELSE IF transaction.currency # NoVal THEN ToUpper(transaction.currency)
  ELSE "NGN"

\* Number(transaction.fiatEquivalent || transaction.amount); NoNum is NaN
BaseAmount(transaction) ==
  IF transaction.fiatEquivalent \notin {NoNum, 0}
    THEN transaction.fiatEquivalent
    ELSE transaction.amount

\* Number(Number(x).toFixed(2)) in the 10^-6 unit
Round2(x) == ((x + 5000) \div 10000) * 10000

NoCall ==
  [channel |-> NoVal, tx |-> 0, ref |-> NoVal, reference |-> NoReference,
   amount |-> NoNum, currency |-> NoVal, to |-> NoVal, fee |-> NoNum, ok |-> FALSE]

\* what settleWithFiat / settleWithCrypto give back: the result object or the
\* error thrown, the external call issued (NoCall if none), conversions made,
\* conversions that failed
Thrown(message, call, nconv, nfail) ==
  [ok |-> FALSE, provider |-> NoVal, reference |-> NoReference,
   details |-> NoDetails, error |-> message, call |-> call, nconv |-> nconv,
   nfail |-> nfail]

\* the payout reference that ignores the clock
PayoutReferenceFixed(transaction, now) ==
  [prefix |-> "PAYOUT", ref |-> transaction.reference, ts |-> "t1"]

\* `PAYOUT-${transaction.reference}-${Date.now()}`, as its three parts
PayoutReference(transaction, now) ==
  [prefix |-> "PAYOUT", ref |-> transaction.reference, ts |-> now]

settleWithFiat(id, transaction, merchant, targetCurrency, feed1, feed2, providerOk, now) ==
  LET preferredCurrency == ToUpper(IF targetCurrency # NoVal THEN targetCurrency ELSE "NGN")
      txnCurrency == TxnCurrency(transaction)
      baseAmount == BaseAmount(transaction)
      needs1 == preferredCurrency # txnCurrency
      c1 == convert(txnCurrency, preferredCurrency, baseAmount, feed1)
      amount1 == IF needs1 /\ c1.ok THEN c1.value ELSE baseAmount
      currency1 == IF needs1 /\ c1.ok THEN preferredCurrency ELSE txnCurrency
      needs2 == currency1 # "NGN"
      c2 == convert(currency1, "NGN", amount1, feed2)
      payoutAmount == IF needs2 /\ c2.ok THEN c2.value ELSE amount1
      payoutCurrency == IF needs2 /\ c2.ok THEN "NGN" ELSE currency1
      nconv == (IF needs1 THEN 1 ELSE 0) + (IF needs2 THEN 1 ELSE 0)
      nfail == (IF needs1 /\ ~c1.ok THEN 1 ELSE 0) + (IF needs2 /\ ~c2.ok THEN 1 ELSE 0)
      reference == PayoutReference(transaction, now)
      call == [channel |-> "FLW_TRANSFER", tx |-> id, ref |-> transaction.reference,
               reference |-> reference, amount |-> Round2(payoutAmount),
               currency |-> payoutCurrency, to |-> merchant.accountNumber,
               fee |-> NoNum, ok |-> providerOk]
  IN
  IF merchant.accountNumber = NoVal
    THEN Thrown("Merchant is missing payout account number", NoCall, 0, 0)
  ELSE IF merchant.routingNumber = NoVal
    THEN Thrown("Merchant is missing bank code/routing number required for payout",
                NoCall, 0, 0)
  ELSE IF baseAmount = NoNum \/ baseAmount <= 0
    THEN Thrown("Unable to resolve fiat amount for settlement", NoCall, 0, 0)
  ELSE IF ~providerOk
    THEN Thrown("Flutterwave transfer failed", call, nconv, nfail)
  ELSE [ok |-> TRUE, provider |-> "FLUTTERWAVE", reference |-> reference,
        details |-> [amount |-> call.amount, currency |-> call.currency,
                     to |-> call.to],
        error |-> NoVal, call |-> call, nconv |-> nconv, nfail |-> nfail]

\* settleWithCrypto catching the conversion error and paying the unconverted
\* amount, as settleWithFiat does
settleWithCryptoFallback(id, transaction, merchant, feed1, providerOk) ==
  LET baseCurrency == TxnCurrency(transaction)
      baseAmount == BaseAmount(transaction)
      needs == baseCurrency # "USDT"
      c == convert(baseCurrency, "USDT", baseAmount, feed1)
      usdtAmount == IF needs /\ c.ok THEN c.value ELSE baseAmount
      nconv == IF needs THEN 1 ELSE 0
      nfail == IF needs /\ ~c.ok THEN 1 ELSE 0
      reference == [prefix |-> "", ref |-> transaction.reference, ts |-> NoVal]
      chargeFee == IF transaction.chargeFee = NoNum THEN 0 ELSE transaction.chargeFee
      call == [channel |-> "CREDIT_MERCHANT", tx |-> id, ref |-> transaction.reference,
               reference |-> reference,
               amount |-> parseUnits(toFixed(usdtAmount, 6), 6), currency |-> "USDT",
               to |-> merchant.walletAddress, fee |-> chargeFee, ok |-> providerOk]
  IN
  IF merchant.walletAddress = NoVal
    THEN Thrown("Merchant wallet address is required for crypto settlement", NoCall, 0, 0)
  ELSE IF baseAmount = NoNum \/ baseAmount <= 0
    THEN Thrown("Unable to resolve settlement amount for crypto payout", NoCall, 0, 0)
  ELSE IF usdtAmount <= 0
    THEN Thrown("Invalid USDT conversion result for settlement", NoCall, nconv, nfail)
  ELSE IF ~providerOk
    THEN Thrown("creditMerchant failed", call, nconv, nfail)
  ELSE [ok |-> TRUE, provider |-> "CONTRACT", reference |-> reference,
        details |-> [amount |-> usdtAmount, currency |-> "USDT",
                     to |-> merchant.walletAddress],
        error |-> NoVal, call |-> call, nconv |-> nconv, nfail |-> nfail]

settleWithCrypto(id, transaction, merchant, feed1, providerOk) ==
  LET baseCurrency == TxnCurrency(transaction)
      baseAmount == BaseAmount(transaction)
      needs == baseCurrency # "USDT"
      c == convert(baseCurrency, "USDT", baseAmount, feed1)
      usdtAmount == IF needs THEN c.value ELSE baseAmount
      nconv == IF needs THEN 1 ELSE 0
      nfail == IF needs /\ ~c.ok THEN 1 ELSE 0
      reference == [prefix |-> "", ref |-> transaction.reference, ts |-> NoVal]
      chargeFee == IF transaction.chargeFee = NoNum THEN 0 ELSE transaction.chargeFee
      call == [channel |-> "CREDIT_MERCHANT", tx |-> id, ref |-> transaction.reference,
               reference |-> reference,
               amount |-> parseUnits(toFixed(usdtAmount, 6), 6), currency |-> "USDT",
               to |-> merchant.walletAddress, fee |-> chargeFee, ok |-> providerOk]
  IN
  IF merchant.walletAddress = NoVal
    THEN Thrown("Merchant wallet address is required for crypto settlement", NoCall, 0, 0)
  ELSE IF baseAmount = NoNum \/ baseAmount <= 0
    THEN Thrown("Unable to resolve settlement amount for crypto payout", NoCall, 0, 0)
  ELSE IF needs /\ ~c.ok
    THEN Thrown(c.error, NoCall, nconv, nfail)
  ELSE IF usdtAmount <= 0
    THEN Thrown("Invalid USDT conversion result for settlement", NoCall, nconv, nfail)
  ELSE IF ~providerOk
    THEN Thrown("creditMerchant failed", call, nconv, nfail)
  ELSE [ok |-> TRUE, provider |-> "CONTRACT", reference |-> reference,
        details |-> [amount |-> usdtAmount, currency |-> "USDT",
                     to |-> merchant.walletAddress],
        error |-> NoVal, call |-> call, nconv |-> nconv, nfail |-> nfail]

NoResult == Thrown(NoVal, NoCall, 0, 0)
IdleStl ==
  [pc |-> "idle", tx |-> 0, snap |-> SchemaDefaults, merchant |-> NoMerchant,
   result |-> NoResult]
\* `at`: the return or throw statement of process() the call ended at
NoStlRet == [at |-> NoVal, error |-> NoVal, settlement |-> NoSettlement]

\* the guard treating FAILED as final too
AlreadySettledOrFailed(transaction) == transaction.status \in {"SETTLED", "FAILED"}

\* the guard testing the settlement record's status word instead
AlreadySettledWrongWord(transaction) == transaction.status = "SUCCESS"

\* process(): if (transaction.status === 'SETTLED')
AlreadySettled(transaction) == transaction.status = "SETTLED"

\* process(): Transaction.findById, the SETTLED guard, and
\* Merchant.findById(transaction.merchantId), whose error is thrown outside the try
SettleStart(w, id) ==
  /\ stl[w].pc = "idle"
  /\ \A v \in Workers : v < w => stl[v].pc # "idle"
  /\ id \in 1..Len(ledger)
  /\ dispatched[id] > 0
  /\ dispatched' = [dispatched EXCEPT ![id] = @ - 1]
  /\ LET transaction == ledger[id]
         merchant == FindMerchantById(transaction.merchantId)
     IN
     IF AlreadySettled(transaction)
       THEN /\ stlRet' =
                 [at |-> "guard", error |-> NoVal,
                  settlement |-> transaction.settlement]
            /\ UNCHANGED stl
     ELSE IF merchant = NoMerchant
       THEN /\ stlRet' =
                 [at |-> "lookup", error |-> "Merchant not found for settlement",
                  settlement |-> NoSettlement]
            /\ UNCHANGED stl
       ELSE /\ stl' = [stl EXCEPT ![w] = [IdleStl EXCEPT !.pc = "mark", !.tx = id,
                                                          !.snap = transaction,
                                                          !.merchant = merchant]]
            /\ UNCHANGED stlRet
  /\ UNCHANGED <<merchants, units, probe, subscription, ack, ledger, rec, recRet, payouts, nEvents>>

\* process(): updateOne({ _id, status: { $ne: 'SETTLED' } }, { status: 'PROCESSING' })
MarkProcessing(doc) ==
  IF doc.status # "SETTLED" THEN [doc EXCEPT !.status = "PROCESSING"] ELSE doc

\* the mark step also rewriting the merchant's payout account
SettleMarkAndMerchant(w) ==
  /\ stl[w].pc = "mark"
  /\ ledger' = [ledger EXCEPT ![stl[w].tx] = MarkProcessing(@)]
  /\ stl' = [stl EXCEPT ![w].pc = "pay"]
  /\ merchants' = { [m EXCEPT !.accountNumber = NoVal] : m \in merchants }
  /\ UNCHANGED <<units, probe, subscription, ack, rec, recRet, dispatched, stlRet, payouts, nEvents>>

SettleMark(w) ==
  /\ stl[w].pc = "mark"
  /\ ledger' = [ledger EXCEPT ![stl[w].tx] = MarkProcessing(@)]
  /\ stl' = [stl EXCEPT ![w].pc = "pay"]
  /\ UNCHANGED <<merchants, units, probe, subscription, ack, rec, recRet, dispatched, stlRet, payouts, nEvents>>

\* process(): settleWithCrypto or settleWithFiat, with its conversions and its
\* external funds-moving call.  No step reads a payout reference back, so the
\* instant of the step is left unnamed here ("Date.now"); PayoutAttempts
\* applies settleWithFiat at the instants of Times.
SettlePay(w) ==
  /\ stl[w].pc = "pay"
  /\ \E feed1 \in BOOLEAN, feed2 \in BOOLEAN, providerOk \in BOOLEAN :
       LET s == stl[w]
           method == resolvePayoutMethod(s.merchant)
           currency == resolvePayoutCurrency(s.merchant, s.snap)
           result == IF method = "crypto"
                       THEN settleWithCrypto(s.tx, s.snap, s.merchant, feed1, providerOk)
                       ELSE settleWithFiat(s.tx, s.snap, s.merchant, currency,
                                           feed1, feed2, providerOk, "Date.now")
       IN
       /\ stl' = [stl EXCEPT ![w].pc = "write", ![w].result = result]
       /\ payouts' = IF result.call = NoCall THEN payouts
                     ELSE [payouts EXCEPT ![s.tx] =
                             [issued |-> @.issued + 1,
                              ok |-> @.ok + (IF result.call.ok THEN 1 ELSE 0)]]
  /\ UNCHANGED <<merchants, units, probe, subscription, ack, ledger, rec, recRet, dispatched, stlRet, nEvents>>

\* the metadataUpdate objects of process(): the settlement read at the start,
\* overlaid with this attempt's fields
SuccessMetadata(settlementMetadata, method, result) ==
  [settlementMetadata EXCEPT
     !.lastRunAt = "Date",
     !.method = IF method = "crypto" THEN "CRYPTO" ELSE "FIAT",
     !.provider = result.provider,
     !.reference = result.reference,
     !.status = "SUCCESS",
     !.details = result.details]

\* the failure record without the error message
FailureMetadataNoError(settlementMetadata, method, result) ==
  [settlementMetadata EXCEPT
     !.lastRunAt = "Date",
     !.method = IF method = "crypto" THEN "CRYPTO" ELSE "FIAT",
     !.status = "FAILED"]

FailureMetadata(settlementMetadata, method, result) ==
  [settlementMetadata EXCEPT
     !.lastRunAt = "Date",
     !.method = IF method = "crypto" THEN "CRYPTO" ELSE "FIAT",
     !.status = "FAILED",
     !.error = result.error]

\* the outcome write setting metadata.settlement only
WriteOutcomeSettlementOnly(doc, status, metadataUpdate) ==
  [doc EXCEPT !.settlement = metadataUpdate]

\* process(): findByIdAndUpdate(_id, { status, 'metadata.settlement' })
WriteOutcome(doc, status, metadataUpdate) ==
  [doc EXCEPT !.status = status, !.settlement = metadataUpdate]

SettleWrite(w) ==
  /\ stl[w].pc = "write"
  /\ LET s == stl[w]
         method == resolvePayoutMethod(s.merchant)
         metadataUpdate == IF s.result.ok
                             THEN SuccessMetadata(s.snap.settlement, method, s.result)
                             ELSE FailureMetadata(s.snap.settlement, method, s.result)
     IN
     /\ ledger' = [ledger EXCEPT ![s.tx] =
                     WriteOutcome(@, IF s.result.ok THEN "SETTLED" ELSE "FAILED",
                                  metadataUpdate)]
     /\ stlRet' =
                     IF s.result.ok
                       THEN [at |-> "success", error |-> NoVal,
                             settlement |-> metadataUpdate]
                       ELSE [at |-> "catch", error |-> s.result.error,
                             settlement |-> NoSettlement]
  /\ stl' = [stl EXCEPT ![w] = IdleStl]
  /\ UNCHANGED <<merchants, units, probe, subscription, ack, rec, recRet, dispatched, payouts, nEvents>>

\* ------------------------------------------------------- unit conversions
NoUnits == [raw |-> NoNum, stored |-> NoNum, back |-> NoNum]
UnitInputs == (0..UnitWindow) \cup ((MaxUnits - UnitWindow)..MaxUnits)

\* recordBlockchainTransaction: amount: normalizeUnits(eventPayload.amount, 6)
UnitsRecord(v) ==
  /\ units = NoUnits
  /\ units' = [raw |-> v, stored |-> normalizeUnits(v, 6), back |-> NoNum]
  /\ UNCHANGED <<merchants, probe, subscription, ack, ledger, rec, recRet, dispatched, stl, stlRet, payouts, nEvents>>

\* settleWithCrypto and creditMerchant: Number(amount).toFixed(6), then
\* ethers.parseUnits(`${amount}`, 6)
UnitsPayout ==
  /\ units.stored # NoNum
  /\ units.back = NoNum
  /\ units' = [units EXCEPT !.back = parseUnits(toFixed(units.stored, 6), 6)]
  /\ UNCHANGED <<merchants, probe, subscription, ack, ledger, rec, recRet, dispatched, stl, stlRet, payouts, nEvents>>

\* ------------------------------------------------- functions on their own
\* no function applied yet
NoProbe == [fn |-> NoVal]

\* payment types and currency / token symbols an event may carry
PaymentTypes == {NoVal, "card", "fiat", "FIAT_TO_FIAT", "CRYPTO_TO_FIAT", "crypto_to_crypto"}
Symbols == {NoVal, "NGN", "USD", "usdt", "USDT", "ETH", "WBTC", "DAI"}

\* the fiatOrTokenType of the update object producer p's record function
\* builds for an event of this payment type and symbol
Classify(p, paymentType, symbol) ==
  /\ probe = NoProbe
  /\ LET e == [src |-> IF p = "webhook" THEN "FLW" ELSE "CHAIN",
               paymentType |-> paymentType, ref |-> "r1", merchantId |-> "m1",
               wallet |-> "W1", status |-> "successful", amount |-> 5000000,
               chargedAmount |-> NoNum, currency |-> symbol, fee |-> NoNum,
               fiatEquivalent |-> NoNum]
         ctx == [error |-> NoVal, merchantId |-> "m1", merchantWalletAddress |-> "w1"]
         upd == IF p = "webhook" THEN FlutterwaveUpdate(e, ctx) ELSE BlockchainUpdate(e, ctx)
     IN probe' = [fn |-> "classify", producer |-> p, paymentType |-> paymentType,
                  symbol |-> symbol, out |-> upd.fiatOrTokenType]
  /\ UNCHANGED <<merchants, units, subscription, ack, ledger, rec, recRet, dispatched, stl,
                 stlRet, payouts, nEvents>>

\* merchant ids and wallet addresses a caller may supply ("bad" is no ObjectId)
SuppliedIds == {NoVal, "m1", "m9", "bad"}
SuppliedWallets == {NoVal, "W1", "w9"}

\* resolveMerchant applied to a merchant id and a wallet address
Resolve(merchantId, merchantWalletAddress) ==
  /\ probe = NoProbe
  /\ probe' = [fn |-> "resolve", merchantId |-> merchantId,
               merchantWalletAddress |-> merchantWalletAddress,
               out |-> resolveMerchant(merchantId, merchantWalletAddress)]
  /\ UNCHANGED <<merchants, units, subscription, ack, ledger, rec, recRet, dispatched, stl,
                 stlRet, payouts, nEvents>>

\* currency codes and amounts (10^-6 units) convert may be called with
ConvertCurrencies == {"NGN", "ngn", "USD", "usd", "USDT", "usdt", "ETH", "eth"}
ConvertAmounts == {1000000, 5000000}

\* convert applied to a pair and an amount, the ETH/USD feed up or down
Convert(from, to, amount, feedUp) ==
  /\ probe = NoProbe
  /\ probe' = [fn |-> "convert", from |-> from, to |-> to, amount |-> amount,
               feedUp |-> feedUp, out |-> convert(from, to, amount, feedUp)]
  /\ UNCHANGED <<merchants, units, subscription, ack, ledger, rec, recRet, dispatched, stl,
                 stlRet, payouts, nEvents>>

\* the verif-hash header of a webhook request (NoVal: no such header) and
\* the WEBHOOK_SECRET of the environment (NoVal: not configured)
Signatures == {NoVal, "s3cret", "wrong"}
Secrets == {NoVal, "s3cret"}

\* handleWebhook's check: signature !== process.env.WEBHOOK_SECRET throws
Authorized(signature, secret) == signature = secret

\* the check applied to a request: the body goes on to persistence, or the
\* controller answers 401 `unauthorized`
VerifyWebhook(signature, secret) ==
  /\ probe = NoProbe
  /\ probe' = [fn |-> "verify", signature |-> signature, secret |-> secret,
               out |-> IF Authorized(signature, secret) THEN "accepted" ELSE "unauthorized"]
  /\ UNCHANGED <<merchants, units, subscription, ack, ledger, rec, recRet, dispatched, stl,
                 stlRet, payouts, nEvents>>

\* the instants Date.now() may give a payout step
Times == {"t1", "t2", "t3"}

\* two fiat settlement attempts for one Transaction, at instants now1 and
\* now2: what settleWithFiat gives each time, and the settlement record
\* process() writes for it
PayoutAttempts(e, now1, now2, ok1, ok2) ==
  /\ probe = NoProbe
  /\ LET ctx == resolveMerchant(e.merchantId, e.wallet)
         transaction == ApplyUpdate(SchemaDefaults, FlutterwaveUpdate(e, ctx))
         merchant == FindMerchantById(ctx.merchantId)
         Attempt(now, providerOk) ==
           LET result == settleWithFiat(1, transaction, merchant,
                                        resolvePayoutCurrency(merchant, transaction),
                                        TRUE, TRUE, providerOk, now)
           IN [at |-> now, result |-> result,
               settlement |-> IF result.ok
                                THEN SuccessMetadata(NoSettlement, "bank_transfer", result)
                                ELSE FailureMetadata(NoSettlement, "bank_transfer", result)]
     IN probe' = [fn |-> "payout", reference |-> transaction.reference,
                  first |-> Attempt(now1, ok1), second |-> Attempt(now2, ok2)]
  /\ UNCHANGED <<merchants, units, subscription, ack, ledger, rec, recRet, dispatched, stl,
                 stlRet, payouts, nEvents>>

\* ------------------------------------------------ PaymentRecorded listener
\* the service instance after construction: no handler registered on the
\* contract, _paymentRecordedUnsubscribe undefined (0), no handler made,
\* start never called (ret: the handler whose unsubscribe function the last
\* start returned)
NoSubscription == [registered |-> {}, stored |-> 0, made |-> 0, ret |-> 0, starts |-> 0]

\* startPaymentRecordedPersistence: gives back the stored unsubscribe
\* function if there is one; otherwise watchPaymentRecorded makes a handler,
\* registers it with contract.on and the unsubscribe function is stored
StartPersistence ==
  /\ subscription.starts < MaxStarts
  /\ subscription' =
       IF subscription.stored # 0
         THEN [subscription EXCEPT !.ret = subscription.stored, !.starts = @ + 1]
         ELSE [registered |-> subscription.registered \cup {subscription.made + 1},
               stored |-> subscription.made + 1,
               made |-> subscription.made + 1,
               ret |-> subscription.made + 1,
               starts |-> subscription.starts + 1]
  /\ UNCHANGED <<merchants, units, probe, ack, ledger, rec, recRet, dispatched, stl,
                 stlRet, payouts, nEvents>>

\* stopPaymentRecordedPersistence: calls the stored unsubscribe function and
\* forgets it
StopPersistence ==
  /\ subscription.stored # 0
  /\ subscription' = [subscription EXCEPT !.registered = @ \ {subscription.stored},
                                          !.stored = 0]
  /\ UNCHANGED <<merchants, units, probe, ack, ledger, rec, recRet, dispatched, stl,
                 stlRet, payouts, nEvents>>

\* the caller calls the unsubscribe function some start returned:
\* contract.off("PaymentRecorded", handler) for that function's handler
Unsubscribe(h) ==
  /\ h \in 1..subscription.made
  /\ h \in subscription.registered
  /\ subscription' = [subscription EXCEPT !.registered = @ \ {h}]
  /\ UNCHANGED <<merchants, units, probe, ack, ledger, rec, recRet, dispatched, stl,
                 stlRet, payouts, nEvents>>

\* ----------------------------------------------------------------- system
Init ==
  /\ merchants \in { {m} : m \in MerchantConfigs }
  /\ ledger = << >>
  /\ rec = [p \in Producers |-> IdleRec]
  /\ recRet = NoRecRet
  /\ dispatched = [i \in 1..MaxEvents |-> 0]
  /\ stl = [w \in Workers |-> IdleStl]
  /\ stlRet = NoStlRet
  /\ payouts = [i \in 1..MaxEvents |-> [issued |-> 0, ok |-> 0]]
  /\ nEvents = 0
  /\ units = NoUnits
  /\ ack = NoAck
  /\ probe = NoProbe
  /\ subscription = NoSubscription

Next ==
  \/ \E p \in Producers : \E e \in EventsOf(p) : Reconcile(p, e)
  \/ \E e \in WebhookOnlyEvents : HandleWebhookOnly(e)
  \/ \E p \in Producers : ReconcileInsert(p)
  \/ \E w \in Workers : \E id \in 1..MaxEvents : SettleStart(w, id)
  \/ \E w \in Workers : SettleMark(w)
  \/ \E w \in Workers : SettlePay(w)
  \/ \E w \in Workers : SettleWrite(w)

Spec == Init /\ [][Next]_vars

\* the same system when reconcile calls come one after the other: a call
\* starts only when no other reconcile call is in flight (settle calls still
\* run concurrently with everything)
NextSeq ==
  \/ \E p \in Producers : \E e \in EventsOf(p) :
       (\A q \in Producers : rec[q].pc = "idle") /\ Reconcile(p, e)
  \/ \E e \in WebhookOnlyEvents :
       (\A q \in Producers : rec[q].pc = "idle") /\ HandleWebhookOnly(e)
  \/ \E p \in Producers : ReconcileInsert(p)
  \/ \E w \in Workers : \E id \in 1..MaxEvents : SettleStart(w, id)
  \/ \E w \in Workers : SettleMark(w)
  \/ \E w \in Workers : SettlePay(w)
  \/ \E w \in Workers : SettleWrite(w)

SpecSeq == Init /\ [][NextSeq]_vars

\* the same system fed with the payments of TwoReferenceEvents
NextTwoReferences ==
  \/ \E p \in Producers : \E e \in TwoReferenceEvents(p) : Reconcile(p, e)
  \/ \E p \in Producers : ReconcileInsert(p)
  \/ \E w \in Workers : \E id \in 1..MaxEvents : SettleStart(w, id)
  \/ \E w \in Workers : SettleMark(w)
  \/ \E w \in Workers : SettlePay(w)
  \/ \E w \in Workers : SettleWrite(w)

SpecTwoReferences == Init /\ [][NextTwoReferences]_vars

\* the unit conversions alone, applied to every amount of UnitInputs
NextUnits ==
  \/ \E v \in UnitInputs : UnitsRecord(v)
  \/ UnitsPayout

SpecUnits == Init /\ [][NextUnits]_vars

\* the PaymentRecorded subscription alone: start, stop and the unsubscribe
\* functions start returned, called in any order
NextSubscription ==
  \/ StartPersistence
  \/ StopPersistence
  \/ \E h \in 1..MaxStarts : Unsubscribe(h)

SpecSubscription == Init /\ [][NextSubscription]_vars

\* the engine's functions alone, each applied once to inputs of its domain
NextFunctions ==
  \/ \E p \in Producers : \E paymentType \in PaymentTypes : \E symbol \in Symbols :
       Classify(p, paymentType, symbol)
  \/ \E merchantId \in SuppliedIds : \E merchantWalletAddress \in SuppliedWallets :
       Resolve(merchantId, merchantWalletAddress)
  \/ \E from \in ConvertCurrencies : \E to \in ConvertCurrencies :
       \E amount \in ConvertAmounts : \E feedUp \in BOOLEAN :
         Convert(from, to, amount, feedUp)
  \/ \E signature \in Signatures : \E secret \in Secrets : VerifyWebhook(signature, secret)
  \/ \E e \in TwoReferenceEvents("webhook") : \E now1 \in Times : \E now2 \in Times :
       \E ok1 \in BOOLEAN : \E ok2 \in BOOLEAN : PayoutAttempts(e, now1, now2, ok1, ok2)

SpecFunctions == Init /\ [][NextFunctions]_vars


\* ================================================================ claims
Ids == 1..Len(ledger)
SameKey(i, j) ==
  /\ ledger[i].merchantId = ledger[j].merchantId
  /\ ledger[i].reference = ledger[j].reference

RECURSIVE SumOk(_, _)
\* successful payout calls for the documents 1..n that share i's key
SumOk(i, n) ==
  IF n = 0 THEN 0
  ELSE SumOk(i, n - 1) + (IF SameKey(i, n) THEN payouts[n].ok ELSE 0)

\* C1: for every (merchantId, reference), at most one external payout call
\* (fiat transfer or on-chain credit) has succeeded, whatever reconcile and
\* settle calls have run
C1_AtMostOnePayoutPerReference ==
  \A i \in Ids : SumOk(i, Len(ledger)) <= 1

\* C2: of two settle calls in flight on the same transaction, both of which
\* read it as PENDING, at most one issues an external payout call
C2_RaceIssuesOnePayout ==
  \A w \in Workers : \A v \in Workers :
    (/\ w # v
     /\ stl[w].tx # 0
     /\ stl[w].tx = stl[v].tx
     /\ stl[w].snap.status = "PENDING"
     /\ stl[v].snap.status = "PENDING"
     /\ stl[w].pc = "write"
     /\ stl[v].pc = "write")
    => ~(stl[w].result.call # NoCall /\ stl[v].result.call # NoCall)

\* C3: the ledger never holds two Transactions with the same
\* (merchantId, reference)
C3_OneTransactionPerKey ==
  \A i \in Ids : \A j \in Ids : SameKey(i, j) => i = j


StringFields ==
  {"merchantId", "merchantWalletAddress", "reference", "fiatOrTokenType",
   "fiatCurrency", "currency",
   "method", "provider", "status", "metaSource"}
NumberFields == {"amount", "fiatEquivalent", "chargeFee"}

\* every field the update carries has the update's value in the document
CarriedFieldsStored(upd, doc) ==
  /\ \A f \in StringFields : upd[f] # NoVal => doc[f] = upd[f]
  /\ \A f \in NumberFields : upd[f] # NoNum => doc[f] = upd[f]

\* this step upserted `upd`: the document it wrote is the one a settle call
\* was fired for; that document is the only one with its key, carries the
\* update's fields, and applying the same update again would not change it
UpsertApplied(upd) ==
  \E i \in 1..Len(ledger') :
    /\ dispatched'[i] = dispatched[i] + 1
    /\ CarriedFieldsStored(upd, ledger'[i])
    /\ ApplyUpdate(ledger'[i], upd) = ledger'[i]
    /\ \A j \in 1..Len(ledger') :
         (/\ ledger'[j].merchantId = ledger'[i].merchantId
          /\ ledger'[j].reference = ledger'[i].reference) => j = i

ReconcileStep == rec' # rec \/ nEvents' # nEvents

\* C5: reconcile never changes the status of a record that is SETTLED or
\* PROCESSING
C5_NoStatusRegression ==
  [][ReconcileStep =>
       \A i \in Ids :
         ledger[i].status \in {"SETTLED", "PROCESSING"}
           => ledger'[i].status = ledger[i].status]_vars

PermittedTransitions ==
  { <<"PENDING", "PROCESSING">>, <<"PROCESSING", "SETTLED">>,
    <<"PROCESSING", "FAILED">>, <<"FAILED", "PROCESSING">> }

\* C6: every change of a Transaction's status is a permitted transition
C6_OnlyPermittedTransitions ==
  [][\A i \in Ids :
       ledger'[i].status # ledger[i].status
         => <<ledger[i].status, ledger'[i].status>> \in PermittedTransitions]_vars

\* C7: no settle step changes the status or the settlement record of a
\* transaction that is SETTLED
C7_SettledIsTerminalForSettle ==
  [][stl' # stl =>
       \A i \in Ids :
         ledger[i].status = "SETTLED"
           => /\ ledger'[i].status = "SETTLED"
              /\ ledger'[i].settlement = ledger[i].settlement]_vars

\* C8: a settle call that finds its transaction SETTLED ends there: it leaves
\* the ledger and the payout counters as they are, starts no settlement work
\* (no conversion, no payout call follows) and returns the stored settlement
C8_SettledIsNoOp ==
  [][\A id \in Ids :
       (dispatched'[id] = dispatched[id] - 1 /\ ledger[id].status = "SETTLED")
         => /\ ledger' = ledger
            /\ payouts' = payouts
            /\ stl' = stl
            /\ stlRet' = [at |-> "guard", error |-> NoVal,
                          settlement |-> ledger[id].settlement]]_vars

\* a settle call has returned at the SETTLED guard with the settlement of a
\* successful payout
C8_Witness ==
  /\ stlRet.at = "guard"
  /\ stlRet.settlement.status = "SUCCESS"
  /\ \E i \in Ids : ledger[i].status = "SETTLED" /\ payouts[i].ok = 1

\* C9: a Transaction inserted by reconcile has status PENDING
C9_InsertedPending ==
  [][Len(ledger') > Len(ledger) => ledger'[Len(ledger')].status = "PENDING"]_vars

\* C10: a settle call on a not-yet-SETTLED transaction that ends by throwing
\* leaves the transaction FAILED, with a settlement record FAILED whose error
\* is the thrown message
C10_ErrorsRecordedAsFailed ==
  [][\A id \in Ids :
       (\/ /\ dispatched'[id] = dispatched[id] - 1
           /\ stl' = stl
           /\ stlRet'.at = "lookup"
        \/ /\ \E w \in Workers : stl[w].pc = "write" /\ stl[w].tx = id
                                   /\ stl'[w].pc = "idle"
           /\ stlRet'.at = "catch")
         => /\ ledger'[id].status = "FAILED"
            /\ ledger'[id].settlement.status = "FAILED"
            /\ ledger'[id].settlement.error = stlRet'.error]_vars

\* worker w's settle call ends in this step, by return or by throw, after its
\* payout step
SettleEnds(w) == stl[w].pc = "write" /\ stl'[w].pc = "idle"

\* a settle call on id ends in this step before marking anything (SETTLED
\* guard, merchant not found)
SettleEndsEarly(id) == dispatched'[id] = dispatched[id] - 1 /\ stl' = stl

\* the steps of a settle call after its reads: each is an awaited ledger write
\* or external call
SettleSteps(w) == SettleMark(w) \/ SettlePay(w) \/ SettleWrite(w)

\* C11: a settle call that has marked its transaction PROCESSING can always
\* take its next step up to the outcome write (nothing but a call that does
\* not return stops it), and the step in which a settle call ends, by return
\* or by throw, leaves the transaction SETTLED or FAILED if the call had
\* marked it, and never PROCESSING
C11_NoAbandonedProcessing ==
  /\ [](\A w \in Workers : stl[w].pc \in {"pay", "write"} => ENABLED SettleSteps(w))
  /\ [][ /\ \A w \in Workers :
              SettleEnds(w) => ledger'[stl[w].tx].status \in {"SETTLED", "FAILED"}
         /\ \A id \in Ids :
              SettleEndsEarly(id) => ledger'[id].status # "PROCESSING" ]_vars

\* a settle call that had marked its transaction has ended by throwing, and
\* the transaction is FAILED
C11_Witness ==
  /\ stlRet.at = "catch"
  /\ \A w \in Workers : stl[w].pc = "idle"
  /\ \E i \in Ids : ledger[i].status = "FAILED" /\ ledger[i].settlement.status = "FAILED"

\* this step is reconcile's ledger write on document i (the settle call for
\* it is fired in the same step)
Upserted(i) == ReconcileStep /\ dispatched'[i] = dispatched[i] + 1

\* a step of a settle call
SettleStep ==
  \/ stl' # stl
  \/ stlRet' # stlRet
  \/ \E i \in Ids : dispatched'[i] = dispatched[i] - 1

\* C12: the step of reconcile's ledger write returns the written Transaction
\* with no settle step taken (no settle call started, no payout, no
\* settlement outcome); no step of a settle call, failing or not, changes
\* what a reconcile call returned or threw
C12_ReturnsBeforeSettlement ==
  [][ /\ \A i \in 1..Len(ledger') :
           Upserted(i) => /\ recRet' = [error |-> NoVal, id |-> i]
                          /\ ledger'[i].reference # NoVal
                          /\ stl' = stl
                          /\ stlRet' = stlRet
                          /\ payouts' = payouts
      /\ SettleStep => recRet' = recRet ]_vars

\* one reconcile call returned document i, and the settle call it fired has
\* since ended by throwing
C12_Witness ==
  /\ nEvents = 1
  /\ recRet.error = NoVal
  /\ recRet.id \in Ids
  /\ stlRet.at \in {"catch", "lookup"}
  /\ stlRet.error # NoVal
  /\ dispatched[recRet.id] = 0

\* this step ends a reconcile call with its ledger write on document i
Wrote(i) ==
  /\ ReconcileStep
  /\ recRet' = [error |-> NoVal, id |-> i]
  /\ \A p \in Producers : rec'[p].pc = "insert" => rec[p].pc = "insert"

\* C13: a reconcile step fires a settle call for a document if and only if it
\* is the step that wrote the document and left it neither SETTLED nor FAILED
C13_DispatchIffNonTerminal ==
  [][\A i \in 1..Len(ledger') :
       ReconcileStep =>
         (dispatched'[i] = dispatched[i] + 1
            <=> (Wrote(i) /\ ledger'[i].status \notin {"SETTLED", "FAILED"}))]_vars

\* C14: every Transaction in the ledger carries the merchantId of a merchant
\* in the Merchant collection
C14_MerchantExists ==
  \A i \in Ids : \E m \in merchants : m.id = ledger[i].merchantId

MissingReference ==
  {"Unable to resolve tx_ref from Flutterwave payload",
   "Missing txRef in PaymentRecorded event payload"}

\* C15: a reconcile call on an event with no reference ends in the same step
\* with the missing-reference error, whether or not its merchant could be
\* resolved, and leaves the ledger and the fired settle calls as they were
C15_NoReferenceRefused ==
  [][\A p \in Producers : \A e \in EventsOf(p) :
       (Reconcile(p, e) /\ e.ref = NoVal)
         => /\ recRet'.error \in MissingReference
            /\ recRet'.id = 0
            /\ ledger' = ledger
            /\ dispatched' = dispatched
            /\ rec' = rec]_vars

\* a chain event without txRef, for a wallet of no merchant, was refused for
\* its missing reference
C15_Witness ==
  /\ recRet.error = "Missing txRef in PaymentRecorded event payload"
  /\ \A m \in merchants : m.walletAddress = NoVal
  /\ ledger = << >>

\* the event carries no amount
NoAmount(e) ==
  IF e.src = "FLW" THEN e.amount = NoNum /\ e.chargedAmount = NoNum
                   ELSE e.amount = NoNum

\* C16: a reconcile call on an event that carries no amount ends in the same
\* step with an error, and leaves the ledger and the fired settle calls as
\* they were
C16_NoAmountRejected ==
  [][\A p \in Producers : \A e \in EventsOf(p) :
       (Reconcile(p, e) /\ NoAmount(e))
         => /\ recRet'.error # NoVal
            /\ recRet'.id = 0
            /\ ledger' = ledger
            /\ dispatched' = dispatched
            /\ rec' = rec]_vars

\* worker w's settle call takes its payout step (conversions and external call)
SettlePays(w) == stl[w].pc = "pay" /\ stl'[w].pc = "write"

\* C17: a settle call in which a currency conversion failed issues no external
\* payout call, and leaves its transaction FAILED when it ends
C17_ConversionFailureAborts ==
  [][\A w \in Workers :
       /\ (SettlePays(w) /\ stl'[w].result.nfail > 0)
            => /\ stl'[w].result.call = NoCall
               /\ payouts' = payouts
       /\ (SettleEnds(w) /\ stl[w].result.nfail > 0)
            => ledger'[stl[w].tx].status = "FAILED"]_vars

\* worker w's settle call pays on the crypto path a transaction held in NGN
CryptoFromNGN(w) ==
  /\ resolvePayoutMethod(stl[w].merchant) = "crypto"
  /\ stl[w].merchant.walletAddress # NoVal
  /\ TxnCurrency(stl[w].snap) = "NGN"

\* C18: a settle call on the crypto path whose conversion from NGN to USDT
\* failed issues no on-chain credit call, and ends by writing status FAILED
\* and a settlement record FAILED whose error is the conversion's message
C18_CryptoConversionFailure ==
  [][\A w \in Workers :
       /\ (SettlePays(w) /\ CryptoFromNGN(w) /\ stl'[w].result.nfail > 0)
            => /\ stl'[w].result.call = NoCall
               /\ payouts' = payouts
               /\ stl'[w].result.error \in {"Failed to read price feed", "Unsupported pair"}
       /\ (SettleEnds(w) /\ CryptoFromNGN(w) /\ stl[w].result.nfail > 0)
            => /\ ledger'[stl[w].tx].status = "FAILED"
               /\ ledger'[stl[w].tx].settlement.status = "FAILED"
               /\ ledger'[stl[w].tx].settlement.error = stl[w].result.error
               /\ stlRet'.error = stl[w].result.error]_vars

\* a crypto settlement has ended FAILED on the price feed's error, with no
\* external call issued for the transaction
C18_Witness ==
  \E i \in Ids :
    /\ ledger[i].status = "FAILED"
    /\ ledger[i].settlement.method = "CRYPTO"
    /\ ledger[i].settlement.error = "Failed to read price feed"
    /\ payouts[i].issued = 0
    /\ stlRet.at = "catch"

\* document i was left FAILED by a settle call
FailedBySettle(i) ==
  ledger[i].status = "FAILED" /\ ledger[i].settlement.status = "FAILED"

\* C19: a transaction left FAILED by a settle call stays in the ledger; a
\* settle call started on it goes on to mark it (it does not return at the
\* guard), the mark moves it to PROCESSING, the payout step that follows
\* issues at most one external call, and the call ends leaving it SETTLED or
\* FAILED; the step that ends a failed call issues no further payout call and
\* fires no further settle call
C19_FailedIsRetriggerable ==
  [][ /\ \A i \in Ids :
           FailedBySettle(i)
             => /\ i \in 1..Len(ledger')
                /\ ledger'[i].reference = ledger[i].reference
                /\ dispatched'[i] = dispatched[i] - 1
                     => \E w \in Workers :
                          /\ stl[w].pc = "idle"
                          /\ stl'[w].pc = "mark"
                          /\ stl'[w].tx = i
      /\ \A w \in Workers :
           /\ (stl[w].pc = "mark" /\ stl'[w].pc = "pay" /\ FailedBySettle(stl[w].tx))
                => ledger'[stl[w].tx].status = "PROCESSING"
           /\ SettlePays(w)
                => /\ payouts'[stl[w].tx].issued <= payouts[stl[w].tx].issued + 1
                   /\ \A i \in Ids : i # stl[w].tx => payouts'[i] = payouts[i]
           /\ SettleEnds(w)
                => /\ ledger'[stl[w].tx].status \in {"SETTLED", "FAILED"}
                   /\ ledger'[stl[w].tx].status = "FAILED" <=> ~stl[w].result.ok
                   /\ payouts' = payouts
                   /\ dispatched' = dispatched ]_vars

\* a transaction whose settlement had failed was settled again, this time
\* with success: its settlement record still shows the earlier error
C19_Witness ==
  \E i \in Ids :
    /\ ledger[i].status = "SETTLED"
    /\ ledger[i].settlement.status = "SUCCESS"
    /\ ledger[i].settlement.error # NoVal
    /\ payouts[i].ok >= 1

\* the settlement amount of the transaction does not resolve to a positive
\* number
NoPositiveAmount(transaction) ==
  /\ transaction.fiatEquivalent = NoNum \/ transaction.fiatEquivalent <= 0
  /\ transaction.amount = NoNum \/ transaction.amount <= 0

\* a precondition of worker w's payout fails: on the fiat path no account
\* number or no bank/routing code, on the crypto path no wallet address, on
\* both no positive amount
PreconditionFails(w) ==
  LET merchant == stl[w].merchant IN
  \/ NoPositiveAmount(stl[w].snap)
  \/ IF merchant.method # NoVal /\ ToLower(merchant.method) = "crypto"
       THEN merchant.walletAddress = NoVal
       ELSE merchant.accountNumber = NoVal \/ merchant.routingNumber = NoVal

PreconditionErrors ==
  {"Merchant is missing payout account number",
   "Merchant is missing bank code/routing number required for payout",
   "Unable to resolve fiat amount for settlement",
   "Merchant wallet address is required for crypto settlement",
   "Unable to resolve settlement amount for crypto payout"}

\* C20: a settle call one of whose payout preconditions fails issues no
\* external funds-moving call, and ends by writing status FAILED and a
\* settlement record FAILED with the precondition's error message
C20_PreconditionFailure ==
  [][\A w \in Workers :
       /\ (SettlePays(w) /\ PreconditionFails(w))
            => /\ stl'[w].result.call = NoCall
               /\ payouts' = payouts
               /\ stl'[w].result.error \in PreconditionErrors
       /\ (SettleEnds(w) /\ PreconditionFails(w))
            => /\ ledger'[stl[w].tx].status = "FAILED"
               /\ ledger'[stl[w].tx].settlement.status = "FAILED"
               /\ ledger'[stl[w].tx].settlement.error \in PreconditionErrors
               /\ stlRet'.error = ledger'[stl[w].tx].settlement.error]_vars

\* a fiat settlement for a merchant without bank/routing code has ended
\* FAILED with that error and no external call
C20_Witness ==
  \E i \in Ids :
    /\ ledger[i].status = "FAILED"
    /\ ledger[i].settlement.error =
         "Merchant is missing bank code/routing number required for payout"
    /\ payouts[i].issued = 0
    /\ \A w \in Workers : stl[w].pc = "idle"

\* C24: no step of a reconcile or settle call changes the Merchant collection
C24_MerchantsOnlyRead ==
  [][merchants' = merchants]_vars

\* reconcile calls have written and failed, settle calls have paid and
\* failed, and the Merchant collection is one of the initial ones
C24_Witness ==
  /\ merchants \in { {m} : m \in MerchantConfigs }
  /\ nEvents >= 2
  /\ recRet.error # NoVal
  /\ stlRet.at = "catch"
  /\ \E i \in Ids : payouts[i].issued >= 1

\* C26: a settle call issues its external payout call only while its
\* transaction is PROCESSING
C26_ProcessingWhenPaying ==
  [][\A w \in Workers :
       (SettlePays(w) /\ stl'[w].result.call # NoCall)
         => ledger[stl[w].tx].status = "PROCESSING"]_vars

\* C27: the outcome write of a settle call whose payout succeeded leaves the
\* transaction SETTLED with a settlement record SUCCESS that holds this
\* attempt's lastRunAt, method, provider, reference and details and no error
C27_SuccessRecord ==
  [][\A w \in Workers :
       (SettleEnds(w) /\ stl[w].result.ok)
         => LET doc == ledger'[stl[w].tx] IN
            /\ doc.status = "SETTLED"
            /\ doc.settlement.status = "SUCCESS"
            /\ doc.settlement.lastRunAt # NoVal
            /\ doc.settlement.method \in {"CRYPTO", "FIAT"}
            /\ doc.settlement.provider = stl[w].result.provider
            /\ doc.settlement.reference = stl[w].result.reference
            /\ doc.settlement.details = stl[w].result.details
            /\ doc.settlement.error = NoVal]_vars

\* C28: a reconcile step leaves the settlement record of every stored
\* Transaction as it was
C28_ReconcileKeepsSettlement ==
  [][ReconcileStep =>
       \A i \in Ids : ledger'[i].settlement = ledger[i].settlement]_vars

\* the status values the Transaction schema declares
DeclaredStatuses == {"PENDING", "PAID", "SETTLED", "FAILED", "SUCCESS", "PROCESSING"}

\* C29: the status of every stored Transaction is one of the declared
\* statuses
C29_StatusInDeclaredSet ==
  \A i \in Ids : ledger[i].status \in DeclaredStatuses

\* payoutPreferences.method equals "crypto", ignoring case
IsCryptoMethod(merchant) ==
  merchant.method # NoVal /\ ToLower(merchant.method) = "crypto"

\* what the on-chain credit path, and the bank-transfer path, can give for
\* worker w's settle call
CryptoResults(w) ==
  { settleWithCrypto(stl[w].tx, stl[w].snap, stl[w].merchant, feed1, providerOk) :
      feed1 \in BOOLEAN, providerOk \in BOOLEAN }
FiatResults(w) ==
  { settleWithFiat(stl[w].tx, stl[w].snap, stl[w].merchant,
                   resolvePayoutCurrency(stl[w].merchant, stl[w].snap),
                   feeds[1], feeds[2], providerOk, "Date.now") :
      feeds \in BOOLEAN \X BOOLEAN, providerOk \in BOOLEAN }

ChainUsdtToCrypto(w) ==
  /\ IsCryptoMethod(stl[w].merchant)
  /\ stl[w].snap.metaSource = "CONTRACT_EVENT"
  /\ stl[w].snap.currency = "USDT"
  /\ stl[w].snap.fiatEquivalent \in {NoNum, 0}

\* C23: for a chain-sourced USDT transaction and a crypto merchant, the
\* on-chain credit call is made with the merchant's wallet, the transaction's
\* reference, the stored amount and the stored fee, with no currency
\* conversion; when the call succeeds the transaction becomes SETTLED
C23_ChainUsdtCreditedUnconverted ==
  [][\A w \in Workers :
       /\ (SettlePays(w) /\ ChainUsdtToCrypto(w) /\ stl'[w].result.call # NoCall)
            => /\ stl'[w].result.call.channel = "CREDIT_MERCHANT"
               /\ stl'[w].result.call.to = stl[w].merchant.walletAddress
               /\ stl'[w].result.call.ref = stl[w].snap.reference
               /\ stl'[w].result.call.amount = stl[w].snap.amount
               /\ stl'[w].result.call.fee = stl[w].snap.chargeFee
               /\ stl'[w].result.nconv = 0
       /\ (SettleEnds(w) /\ ChainUsdtToCrypto(w) /\ stl[w].result.ok)
            => ledger'[stl[w].tx].status = "SETTLED"]_vars

\* the source kind the classification rule gives for event e: CRYPTO for
\* payment type CRYPTO_TO_FIAT with token USDT, FIAT for a webhook with no
\* payment type and currency NGN; NoVal where the rule says nothing
ExpectedKind(e) ==
  IF e.paymentType = "CRYPTO_TO_FIAT" /\ e.currency = "USDT" THEN "CRYPTO"
  ELSE IF e.src = "FLW" /\ e.paymentType = NoVal /\ e.currency = "NGN" THEN "FIAT"
  ELSE NoVal

\* C21: the update reconcile builds for an event, and the record it stores,
\* carry the source kind the classification rule gives for the event
C21_SourceKind ==
  [][\A p \in Producers : \A e \in EventsOf(p) :
       (Reconcile(p, e) /\ ExpectedKind(e) # NoVal)
         => /\ rec'[p].pc = "insert" => rec'[p].upd.fiatOrTokenType = ExpectedKind(e)
            /\ \A i \in 1..Len(ledger') :
                 Upserted(i) => ledger'[i].fiatOrTokenType = ExpectedKind(e)]_vars

HandlerEndsAfterReconcile(p) ==
  \/ \E e \in EventsOf(p) : Reconcile(p, e) /\ rec'[p].pc = "idle"
  \/ ReconcileInsert(p)

WebhookOk == [to |-> "webhook", status |-> "200", listener |-> NoVal]
ChainOk == [to |-> "chain", status |-> "resolved", listener |-> "on"]

ClassificationRule(paymentType, symbol) ==
  LET pt == IF paymentType = NoVal THEN "" ELSE ToUpper(paymentType)
      known == symbol # NoVal
               /\ ToUpper(symbol) \in {"USDT", "USDC", "BTC", "ETH", "WETH", "WBTC"}
  IN
  CASE Includes(pt, "FIAT") -> "FIAT"
    [] ~Includes(pt, "FIAT") /\ Includes(pt, "CRYPTO") -> "CRYPTO"
    [] ~Includes(pt, "FIAT") /\ ~Includes(pt, "CRYPTO") /\ known -> "CRYPTO"
    [] OTHER -> "FIAT"

\* the payment type a record function works with: the webhook's is
\* FIAT_TO_FIAT when the payload names none
PaymentTypeOf(p, paymentType) ==
  IF p = "webhook" /\ paymentType = NoVal THEN "FIAT_TO_FIAT" ELSE paymentType

\* C31: determineFiatOrTokenType follows the classification rule on every
\* payment type and symbol, and the kind either producer stores for an event
\* is the one the function gives for the event's payment type and symbol
C31_OneClassifier ==
  /\ \A paymentType \in PaymentTypes : \A symbol \in Symbols :
       determineFiatOrTokenType(paymentType, symbol)
         = ClassificationRule(paymentType, symbol)
  /\ probe.fn = "classify"
       => probe.out = determineFiatOrTokenType(
                        PaymentTypeOf(probe.producer, probe.paymentType), probe.symbol)

\* C32: resolveMerchant fails when neither merchant id nor wallet is given
\* and when the merchant id is malformed; given both, what it returns names
\* the merchant of the id, with the given wallet in lower case, and that
\* wallet is the wallet of that merchant
C32_WalletCrossChecked ==
  probe.fn = "resolve" =>
    /\ (probe.merchantId = NoVal /\ probe.merchantWalletAddress = NoVal)
         => probe.out.error # NoVal
    /\ (probe.merchantId # NoVal /\ ~ObjectIdIsValid(probe.merchantId))
         => probe.out.error # NoVal
    /\ (probe.merchantId # NoVal /\ probe.merchantWalletAddress # NoVal
        /\ probe.out.error = NoVal)
         => /\ probe.out.merchantId = probe.merchantId
            /\ probe.out.merchantWalletAddress = ToLower(probe.merchantWalletAddress)
            /\ FindMerchantById(probe.merchantId).walletAddress
                 = probe.out.merchantWalletAddress

\* the pairs convert has a case for, and those of them that use no ETH rate
SupportedPairs ==
  { <<"NGN", "USD">>, <<"USD", "NGN">>, <<"USD", "ETH">>, <<"NGN", "ETH">>,
    <<"NGN", "USDT">>, <<"USD", "USDT">> }
PairsWithoutEth ==
  { <<"NGN", "USD">>, <<"USD", "NGN">>, <<"NGN", "USDT">>, <<"USD", "USDT">> }
ProbedPair == <<ToUpper(probe.from), ToUpper(probe.to)>>

\* C34: convert returns a value only for a supported pair (upper case
\* taken); for any other pair it returns no value and fails with the
\* unsupported-pair error
C34_OnlyFixedPairs ==
  probe.fn = "convert" =>
    /\ probe.out.ok => ProbedPair \in SupportedPairs
    /\ ProbedPair \notin SupportedPairs
         => /\ ~probe.out.ok
            /\ probe.out.value = NoNum
            /\ probe.out.error = "Unsupported pair"

\* C39: a supported pair that uses no ETH rate is converted whether the
\* ETH/USD feed can be read or not, and an unsupported pair fails with the
\* unsupported-pair error, not with the feed's
C39_FailsForOwnPairOnly ==
  probe.fn = "convert" =>
    /\ ProbedPair \in PairsWithoutEth => probe.out.ok /\ probe.out.value # NoNum
    /\ (ProbedPair \notin SupportedPairs /\ ~probe.feedUp)
         => probe.out.error = "Unsupported pair"

\* C36: a webhook request with no verification header, or with one that
\* differs from the configured secret, is answered `unauthorized`, whether a
\* secret is configured or not
C36_UnverifiedRejected ==
  (probe.fn = "verify" /\ (probe.signature = NoVal \/ probe.signature # probe.secret))
    => probe.out = "unauthorized"

\* C38: at most one PaymentRecorded handler is registered at any time; a
\* start made while an unsubscribe function is stored registers nothing and
\* returns that function; and when start returns, exactly one handler is
\* registered
C38_OneHandler ==
  [][ /\ Cardinality(subscription'.registered) <= 1
      /\ StartPersistence
           => /\ subscription.stored # 0
                   => /\ subscription'.registered = subscription.registered
                      /\ subscription'.ret = subscription.stored
              /\ Cardinality(subscription'.registered) = 1 ]_vars

\* amount, held in currency `from`, expressed in currency `to` at the
\* configured NGN/USD rate
InCurrency(amount, from, to) ==
  CASE from = to -> amount
    [] from = "NGN" /\ to = "USD" -> amount \div NGN_USD
    [] from = "USD" /\ to = "NGN" -> amount * NGN_USD
    [] OTHER -> NoNum

\* worker w's payout step submits a transfer instruction to the gateway
SubmitsTransfer(w) ==
  SettlePays(w) /\ stl'[w].result.call.channel = "FLW_TRANSFER"

KeyOf(doc) == <<doc.merchantId, doc.reference>>

\* the step leaves alone every document, dispatch count and payout count
\* that is not of key k, and adds no document but of key k
ChangesOnlyKey(k) ==
  /\ Len(ledger') >= Len(ledger)
  /\ \A i \in 1..Len(ledger) :
       KeyOf(ledger[i]) # k
         => /\ ledger'[i] = ledger[i]
            /\ dispatched'[i] = dispatched[i]
            /\ payouts'[i] = payouts[i]
  /\ \A i \in (Len(ledger) + 1)..Len(ledger') : KeyOf(ledger'[i]) = k

\* the step leaves alone every document and payout count but those of id
ChangesOnlyId(id) ==
  /\ Len(ledger') = Len(ledger)
  /\ \A i \in 1..Len(ledger) :
       i # id => ledger'[i] = ledger[i] /\ payouts'[i] = payouts[i]

\* C33: a step of a reconcile call for reference r changes, and adds, only
\* Transactions of the call's key (merchantId, r); a step of a settle call
\* changes only the call's own Transaction, and the start of a settle call
\* changes none
C33_CallsTouchOwnRecord ==
  [][ /\ \A p \in Producers : \A e \in TwoReferenceEvents(p) :
           Reconcile(p, e)
             => ChangesOnlyKey(<<resolveMerchant(e.merchantId, e.wallet).merchantId, e.ref>>)
      /\ \A p \in Producers :
           ReconcileInsert(p)
             => ChangesOnlyKey(<<rec[p].upd.merchantId, rec[p].upd.reference>>)
      /\ \A w \in Workers : SettleSteps(w) => ChangesOnlyId(stl[w].tx)
      /\ \A w \in Workers : \A id \in 1..MaxEvents :
           SettleStart(w, id) => ledger' = ledger /\ payouts' = payouts ]_vars

\* settle calls for r1 and for r2 in flight together, both past the mark
\* step, after the reconcile calls for the two references
C33_Witness ==
  /\ Len(ledger) = 2
  /\ ledger[1].reference # ledger[2].reference
  /\ stl[1].pc = "write" /\ stl[2].pc = "write"
  /\ stl[1].tx # stl[2].tx

\* the attempt submitted a transfer instruction
Submitted(attempt) == attempt.result.call.channel = "FLW_TRANSFER"

\* C35: the transfer instruction of a fiat settlement attempt carries the
\* reference PAYOUT-<the transaction's reference>-<the instant of the
\* attempt>; a successful attempt's settlement record carries the same
\* reference; two attempts for one transaction at different instants carry
\* different references
C35_PayoutReferencePerAttempt ==
  probe.fn = "payout" =>
    /\ \A attempt \in {probe.first, probe.second} :
         Submitted(attempt)
           => /\ attempt.result.call.reference
                   = [prefix |-> "PAYOUT", ref |-> probe.reference, ts |-> attempt.at]
              /\ attempt.result.ok
                   => attempt.settlement.reference = attempt.result.call.reference
    /\ (Submitted(probe.first) /\ Submitted(probe.second)
        /\ probe.first.at # probe.second.at)
         => probe.first.result.call.reference # probe.second.result.call.reference

\* a failed attempt at t1 and a successful one at t2 for reference r1, each
\* with its own payout reference
C35_Witness ==
  /\ probe.fn = "payout"
  /\ probe.reference = "r1"
  /\ Submitted(probe.first) /\ ~probe.first.result.ok /\ probe.first.at = "t1"
  /\ probe.second.result.ok /\ probe.second.at = "t2"
  /\ probe.second.settlement.reference = [prefix |-> "PAYOUT", ref |-> "r1", ts |-> "t2"]

====
